---------------------------- MODULE Spec2Model ----------------------------
(***************************************************************************)
(* A model of package errors (src/errors/errors.go): the Error value, its  *)
(* JSON text form, Parse, the constructors and domain sentinels, Is, Wrap, *)
(* WithDetail, the classification helpers and the ErrorBuilder.            *)
(*                                                                         *)
(* A Go string is a sequence of characters, each a one-character TLA+      *)
(* string, with these named characters:                                    *)
(*   "LF", "TAB", "CR"  the control characters 0x0A, 0x09, 0x0D            *)
(*   "xFF"              a byte that is not valid UTF-8                     *)
(*   "uFFFD"            the replacement character U+FFFD                   *)
(*   "U+hhhh"           any other code point written as a \u escape        *)
(*                                                                         *)
(* A Go error (interface value) is one of                                  *)
(*   [kind |-> "nil"]     the nil interface                                *)
(*   [kind |-> "nilptr"]  a nil *Error stored in the interface             *)
(*   [kind |-> "Error", Id, Code, Detail, Status]  a *Error                *)
(*   [kind |-> "other", text]  an error of another type, with its text     *)
(* A call returns Ret(v), or Panic when the Go code dereferences nil.      *)
(***************************************************************************)
EXTENDS Integers, Sequences, FiniteSets, TLC

VARIABLES
    err,     \* the error the client holds
    from,    \* the operation that produced orig
    orig,    \* the error the current Wrap/WithDetail chain started from
    chain,   \* the Wrap/WithDetail calls applied to orig, oldest first
    b,       \* the ErrorBuilder
    last,    \* the values last given to the builder's setters (or the defaults)
    res      \* the last call and what it returned

vars == <<err, from, orig, chain, b, last, res>>

----------------------------------------------------------------------------
(* Bounds of the model *)

\* longest chain of Wrap/WithDetail calls applied to one error
MaxChain == 3

----------------------------------------------------------------------------
(* Values *)

MaxInt32 == 2147483647

NilErr == [kind |-> "nil"]

NilPtr == [kind |-> "nilptr"]

Err(id, code, detail, status) ==
    [kind |-> "Error", Id |-> id, Code |-> code, Detail |-> detail, Status |-> status]

Other(t) == [kind |-> "other", text |-> t]

IsError(v) == v.kind = "Error"

Ret(v) == [ok |-> TRUE, val |-> v]

Panic == [ok |-> FALSE]

NoRes == [op |-> "none"]

----------------------------------------------------------------------------
(* Strings *)

Digit(d) == <<"0", "1", "2", "3", "4", "5", "6", "7", "8", "9">>[d + 1]

RECURSIVE ItoaNat(_)
ItoaNat(n) == IF n < 10 THEN <<Digit(n)>> ELSE ItoaNat(n \div 10) \o <<Digit(n % 10)>>

\* strconv.Itoa / the JSON encoding of an integer
Itoa(n) ==
    IF n >= 0 THEN ItoaNat(n)
    ELSE IF n = 0 - MaxInt32 - 1 THEN <<"-", "2", "1", "4", "7", "4", "8", "3", "6", "4", "8">>
    ELSE <<"-">> \o ItoaNat(0 - n)

\* the extra operands fmt reports after the format is used up: string=a, string=b
RECURSIVE ExtraArgs(_)
ExtraArgs(args) ==
    IF args = <<>> THEN <<>>
    ELSE <<"s", "t", "r", "i", "n", "g", "=">> \o Head(args)
         \o (IF Len(args) > 1 THEN <<",", " ">> ELSE <<>>) \o ExtraArgs(Tail(args))

\* fmt.Sprintf(format, args...) for string operands: the verbs %s and %v print
\* the next operand, %% prints a percent sign, any other verb is a bad verb for
\* a string; a verb with no operand left prints %!v(MISSING), a trailing % prints
\* %!(NOVERB), and operands left over are reported as %!(EXTRA ...).
RECURSIVE SprintfFrom(_, _)
SprintfFrom(format, args) ==
    IF format = <<>> THEN
        IF args = <<>> THEN <<>> ELSE <<"%", "!", "(", "E", "X", "T", "R", "A", " ">> \o ExtraArgs(args) \o <<")">>
    ELSE IF Head(format) # "%" THEN
        <<Head(format)>> \o SprintfFrom(Tail(format), args)
    ELSE IF Len(format) = 1 THEN
        <<"%", "!", "(", "N", "O", "V", "E", "R", "B", ")">> \o SprintfFrom(<<>>, args)
    ELSE LET verb == format[2]
             rest == Tail(Tail(format))
         IN  IF verb = "%" THEN <<"%">> \o SprintfFrom(rest, args)
             ELSE IF args = <<>> THEN
                 <<"%", "!", verb>> \o <<"(", "M", "I", "S", "S", "I", "N", "G", ")">> \o SprintfFrom(rest, args)
             ELSE IF verb \in {"s", "v"} THEN
                 Head(args) \o SprintfFrom(rest, Tail(args))
             ELSE <<"%", "!", verb>> \o <<"(", "s", "t", "r", "i", "n", "g", "=">> \o Head(args) \o <<")">>
                  \o SprintfFrom(rest, Tail(args))

Sprintf(format, args) == SprintfFrom(format, args)

\* net/http.StatusText: the reason phrase of a status code, empty when unknown
StatusText(code) ==
    CASE code = 100 -> <<"C", "o", "n", "t", "i", "n", "u", "e">>
      [] code = 101 -> <<"S", "w", "i", "t", "c", "h", "i", "n", "g", " ", "P", "r", "o", "t", "o", "c", "o", "l", "s">>
      [] code = 102 -> <<"P", "r", "o", "c", "e", "s", "s", "i", "n", "g">>
      [] code = 103 -> <<"E", "a", "r", "l", "y", " ", "H", "i", "n", "t", "s">>
      [] code = 200 -> <<"O", "K">>
      [] code = 201 -> <<"C", "r", "e", "a", "t", "e", "d">>
      [] code = 202 -> <<"A", "c", "c", "e", "p", "t", "e", "d">>
      [] code = 203 -> <<"N", "o", "n", "-", "A", "u", "t", "h", "o", "r", "i", "t", "a", "t", "i", "v", "e", " ", "I", "n", "f", "o", "r", "m", "a", "t", "i", "o", "n">>
      [] code = 204 -> <<"N", "o", " ", "C", "o", "n", "t", "e", "n", "t">>
      [] code = 205 -> <<"R", "e", "s", "e", "t", " ", "C", "o", "n", "t", "e", "n", "t">>
      [] code = 206 -> <<"P", "a", "r", "t", "i", "a", "l", " ", "C", "o", "n", "t", "e", "n", "t">>
      [] code = 207 -> <<"M", "u", "l", "t", "i", "-", "S", "t", "a", "t", "u", "s">>
      [] code = 208 -> <<"A", "l", "r", "e", "a", "d", "y", " ", "R", "e", "p", "o", "r", "t", "e", "d">>
      [] code = 226 -> <<"I", "M", " ", "U", "s", "e", "d">>
      [] code = 300 -> <<"M", "u", "l", "t", "i", "p", "l", "e", " ", "C", "h", "o", "i", "c", "e", "s">>
      [] code = 301 -> <<"M", "o", "v", "e", "d", " ", "P", "e", "r", "m", "a", "n", "e", "n", "t", "l", "y">>
      [] code = 302 -> <<"F", "o", "u", "n", "d">>
      [] code = 303 -> <<"S", "e", "e", " ", "O", "t", "h", "e", "r">>
      [] code = 304 -> <<"N", "o", "t", " ", "M", "o", "d", "i", "f", "i", "e", "d">>
      [] code = 305 -> <<"U", "s", "e", " ", "P", "r", "o", "x", "y">>
      [] code = 307 -> <<"T", "e", "m", "p", "o", "r", "a", "r", "y", " ", "R", "e", "d", "i", "r", "e", "c", "t">>
      [] code = 308 -> <<"P", "e", "r", "m", "a", "n", "e", "n", "t", " ", "R", "e", "d", "i", "r", "e", "c", "t">>
      [] code = 400 -> <<"B", "a", "d", " ", "R", "e", "q", "u", "e", "s", "t">>
      [] code = 401 -> <<"U", "n", "a", "u", "t", "h", "o", "r", "i", "z", "e", "d">>
      [] code = 402 -> <<"P", "a", "y", "m", "e", "n", "t", " ", "R", "e", "q", "u", "i", "r", "e", "d">>
      [] code = 403 -> <<"F", "o", "r", "b", "i", "d", "d", "e", "n">>
      [] code = 404 -> <<"N", "o", "t", " ", "F", "o", "u", "n", "d">>
      [] code = 405 -> <<"M", "e", "t", "h", "o", "d", " ", "N", "o", "t", " ", "A", "l", "l", "o", "w", "e", "d">>
      [] code = 406 -> <<"N", "o", "t", " ", "A", "c", "c", "e", "p", "t", "a", "b", "l", "e">>
      [] code = 407 -> <<"P", "r", "o", "x", "y", " ", "A", "u", "t", "h", "e", "n", "t", "i", "c", "a", "t", "i", "o", "n", " ", "R", "e", "q", "u", "i", "r", "e", "d">>
      [] code = 408 -> <<"R", "e", "q", "u", "e", "s", "t", " ", "T", "i", "m", "e", "o", "u", "t">>
      [] code = 409 -> <<"C", "o", "n", "f", "l", "i", "c", "t">>
      [] code = 410 -> <<"G", "o", "n", "e">>
      [] code = 411 -> <<"L", "e", "n", "g", "t", "h", " ", "R", "e", "q", "u", "i", "r", "e", "d">>
      [] code = 412 -> <<"P", "r", "e", "c", "o", "n", "d", "i", "t", "i", "o", "n", " ", "F", "a", "i", "l", "e", "d">>
      [] code = 413 -> <<"R", "e", "q", "u", "e", "s", "t", " ", "E", "n", "t", "i", "t", "y", " ", "T", "o", "o", " ", "L", "a", "r", "g", "e">>
      [] code = 414 -> <<"R", "e", "q", "u", "e", "s", "t", " ", "U", "R", "I", " ", "T", "o", "o", " ", "L", "o", "n", "g">>
      [] code = 415 -> <<"U", "n", "s", "u", "p", "p", "o", "r", "t", "e", "d", " ", "M", "e", "d", "i", "a", " ", "T", "y", "p", "e">>
      [] code = 416 -> <<"R", "e", "q", "u", "e", "s", "t", "e", "d", " ", "R", "a", "n", "g", "e", " ", "N", "o", "t", " ", "S", "a", "t", "i", "s", "f", "i", "a", "b", "l", "e">>
      [] code = 417 -> <<"E", "x", "p", "e", "c", "t", "a", "t", "i", "o", "n", " ", "F", "a", "i", "l", "e", "d">>
      [] code = 418 -> <<"I", "'", "m", " ", "a", " ", "t", "e", "a", "p", "o", "t">>
      [] code = 421 -> <<"M", "i", "s", "d", "i", "r", "e", "c", "t", "e", "d", " ", "R", "e", "q", "u", "e", "s", "t">>
      [] code = 422 -> <<"U", "n", "p", "r", "o", "c", "e", "s", "s", "a", "b", "l", "e", " ", "E", "n", "t", "i", "t", "y">>
      [] code = 423 -> <<"L", "o", "c", "k", "e", "d">>
      [] code = 424 -> <<"F", "a", "i", "l", "e", "d", " ", "D", "e", "p", "e", "n", "d", "e", "n", "c", "y">>
      [] code = 425 -> <<"T", "o", "o", " ", "E", "a", "r", "l", "y">>
      [] code = 426 -> <<"U", "p", "g", "r", "a", "d", "e", " ", "R", "e", "q", "u", "i", "r", "e", "d">>
      [] code = 428 -> <<"P", "r", "e", "c", "o", "n", "d", "i", "t", "i", "o", "n", " ", "R", "e", "q", "u", "i", "r", "e", "d">>
      [] code = 429 -> <<"T", "o", "o", " ", "M", "a", "n", "y", " ", "R", "e", "q", "u", "e", "s", "t", "s">>
      [] code = 431 -> <<"R", "e", "q", "u", "e", "s", "t", " ", "H", "e", "a", "d", "e", "r", " ", "F", "i", "e", "l", "d", "s", " ", "T", "o", "o", " ", "L", "a", "r", "g", "e">>
      [] code = 451 -> <<"U", "n", "a", "v", "a", "i", "l", "a", "b", "l", "e", " ", "F", "o", "r", " ", "L", "e", "g", "a", "l", " ", "R", "e", "a", "s", "o", "n", "s">>
      [] code = 500 -> <<"I", "n", "t", "e", "r", "n", "a", "l", " ", "S", "e", "r", "v", "e", "r", " ", "E", "r", "r", "o", "r">>
      [] code = 501 -> <<"N", "o", "t", " ", "I", "m", "p", "l", "e", "m", "e", "n", "t", "e", "d">>
      [] code = 502 -> <<"B", "a", "d", " ", "G", "a", "t", "e", "w", "a", "y">>
      [] code = 503 -> <<"S", "e", "r", "v", "i", "c", "e", " ", "U", "n", "a", "v", "a", "i", "l", "a", "b", "l", "e">>
      [] code = 504 -> <<"G", "a", "t", "e", "w", "a", "y", " ", "T", "i", "m", "e", "o", "u", "t">>
      [] code = 505 -> <<"H", "T", "T", "P", " ", "V", "e", "r", "s", "i", "o", "n", " ", "N", "o", "t", " ", "S", "u", "p", "p", "o", "r", "t", "e", "d">>
      [] code = 506 -> <<"V", "a", "r", "i", "a", "n", "t", " ", "A", "l", "s", "o", " ", "N", "e", "g", "o", "t", "i", "a", "t", "e", "s">>
      [] code = 507 -> <<"I", "n", "s", "u", "f", "f", "i", "c", "i", "e", "n", "t", " ", "S", "t", "o", "r", "a", "g", "e">>
      [] code = 508 -> <<"L", "o", "o", "p", " ", "D", "e", "t", "e", "c", "t", "e", "d">>
      [] code = 510 -> <<"N", "o", "t", " ", "E", "x", "t", "e", "n", "d", "e", "d">>
      [] code = 511 -> <<"N", "e", "t", "w", "o", "r", "k", " ", "A", "u", "t", "h", "e", "n", "t", "i", "c", "a", "t", "i", "o", "n", " ", "R", "e", "q", "u", "i", "r", "e", "d">>
      [] OTHER -> <<>>

----------------------------------------------------------------------------
(* Constructors *)

\* a New that leaves the status empty
NewWithoutStatus(id, detail, code) == Err(id, code, detail, <<>>)

New(id, detail, code) == Err(id, code, detail, StatusText(code))

\* the shape shared by the named constructors: the identity is the decimal
\* code and the detail is fmt.Sprintf("%s", a...)
Coded(code, a) == Err(Itoa(code), code, Sprintf(<<"%", "s">>, a), StatusText(code))

BadRequest(a) == Coded(400, a)

Unauthorized(a) == Coded(401, a)

Forbidden(a) == Coded(403, a)

NotFound(a) == Coded(404, a)

MethodNotAllowed(a) == Coded(405, a)

Timeout(a) == Coded(408, a)

Conflict(a) == Coded(409, a)

InternalServerError(a) == Coded(500, a)

ServiceUnavailable(a) == Coded(503, a)

GatewayTimeout(a) == Coded(504, a)

Constructor(name, a) ==
    CASE name = "BadRequest" -> BadRequest(a)
      [] name = "Unauthorized" -> Unauthorized(a)
      [] name = "Forbidden" -> Forbidden(a)
      [] name = "NotFound" -> NotFound(a)
      [] name = "MethodNotAllowed" -> MethodNotAllowed(a)
      [] name = "Timeout" -> Timeout(a)
      [] name = "Conflict" -> Conflict(a)
      [] name = "InternalServerError" -> InternalServerError(a)
      [] name = "ServiceUnavailable" -> ServiceUnavailable(a)
      [] name = "GatewayTimeout" -> GatewayTimeout(a)

ConstructorNames ==
    {"BadRequest", "Unauthorized", "Forbidden", "NotFound", "MethodNotAllowed",
     "Timeout", "Conflict", "InternalServerError", "ServiceUnavailable",
     "GatewayTimeout"}

ErrCollateralNotFound == NotFound(<<<<"c", "o", "l", "l", "a", "t", "e", "r", "a", "l", " ", "n", "o", "t", " ", "f", "o", "u", "n", "d">>>>)

ErrCollateralExists == Conflict(<<<<"c", "o", "l", "l", "a", "t", "e", "r", "a", "l", " ", "a", "l", "r", "e", "a", "d", "y", " ", "e", "x", "i", "s", "t", "s">>>>)

ErrInvalidCollateralInput == BadRequest(<<<<"i", "n", "v", "a", "l", "i", "d", " ", "c", "o", "l", "l", "a", "t", "e", "r", "a", "l", " ", "i", "n", "p", "u", "t">>>>)

ErrCollateralSyncFailed == ServiceUnavailable(<<<<"c", "o", "l", "l", "a", "t", "e", "r", "a", "l", " ", "s", "y", "n", "c", "h", "r", "o", "n", "i", "z", "a", "t", "i", "o", "n", " ", "f", "a", "i", "l", "e", "d">>>>)

ErrDatabaseOperation == InternalServerError(<<<<"d", "a", "t", "a", "b", "a", "s", "e", " ", "o", "p", "e", "r", "a", "t", "i", "o", "n", " ", "f", "a", "i", "l", "e", "d">>>>)

ErrExternalService == ServiceUnavailable(<<<<"e", "x", "t", "e", "r", "n", "a", "l", " ", "s", "e", "r", "v", "i", "c", "e", " ", "u", "n", "a", "v", "a", "i", "l", "a", "b", "l", "e">>>>)

Sentinels ==
    {ErrCollateralNotFound, ErrCollateralExists, ErrInvalidCollateralInput,
     ErrCollateralSyncFailed, ErrDatabaseOperation, ErrExternalService}

----------------------------------------------------------------------------
(* The JSON text form: encoding/json.Marshal of an Error *)

HexDigits == <<"0", "1", "2", "3", "4", "5", "6", "7", "8", "9", "a", "b", "c", "d", "e", "f">>

HexUpper == <<"0", "1", "2", "3", "4", "5", "6", "7", "8", "9", "A", "B", "C", "D", "E", "F">>

\* the character with code v < 0x20
ControlChar(v) ==
    CASE v = 9 -> "TAB"
      [] v = 10 -> "LF"
      [] v = 13 -> "CR"
      [] OTHER -> "U+00" \o HexUpper[(v \div 16) + 1] \o HexUpper[(v % 16) + 1]

ControlChars == {ControlChar(v) : v \in 0..31}

ControlCode(c) == CHOOSE v \in 0..31 : ControlChar(v) = c

\* an encoder that escapes nothing
EncodeCharRaw(c) == <<c>>

\* one character of a string inside the quotes of its JSON encoding, with
\* HTML escaping on (Marshal's default); invalid UTF-8 becomes U+FFFD
EncodeChar(c) ==
    CASE c = "\"" -> <<"\\", "\"">>
      [] c = "\\" -> <<"\\", "\\">>
      [] c = "LF" -> <<"\\", "n">>
      [] c = "CR" -> <<"\\", "r">>
      [] c = "TAB" -> <<"\\", "t">>
      [] c = "<" -> <<"\\", "u", "0", "0", "3", "c">>
      [] c = ">" -> <<"\\", "u", "0", "0", "3", "e">>
      [] c = "&" -> <<"\\", "u", "0", "0", "2", "6">>
      [] c = "xFF" -> <<"\\", "u", "f", "f", "f", "d">>
      [] c = "U+2028" -> <<"\\", "u", "2", "0", "2", "8">>
      [] c = "U+2029" -> <<"\\", "u", "2", "0", "2", "9">>
      [] c \in ControlChars \ {"LF", "CR", "TAB"} ->
            <<"\\", "u", "0", "0">> \o <<HexDigits[(ControlCode(c) \div 16) + 1],
                           HexDigits[(ControlCode(c) % 16) + 1]>>
      [] OTHER -> <<c>>

\* the characters of s encoded in order (the halves of s one after the other)
RECURSIVE EncodeChars(_)
EncodeChars(s) ==
    IF s = <<>> THEN <<>>
    ELSE IF Len(s) = 1 THEN EncodeChar(s[1])
    ELSE EncodeChars(SubSeq(s, 1, Len(s) \div 2))
         \o EncodeChars(SubSeq(s, (Len(s) \div 2) + 1, Len(s)))

EncodeString(s) == <<"\"">> \o EncodeChars(s) \o <<"\"">>

\* json.Marshal(e) for e *Error: the four fields in declaration order under
\* their json tags; a nil pointer encodes as null
Marshal(e) ==
    IF e.kind = "nilptr" THEN <<"n", "u", "l", "l">>
    ELSE <<"{", "\"", "i", "d", "\"", ":">> \o EncodeString(e.Id)
         \o <<",", "\"", "c", "o", "d", "e", "\"", ":">> \o Itoa(e.Code)
         \o <<",", "\"", "d", "e", "t", "a", "i", "l", "\"", ":">> \o EncodeString(e.Detail)
         \o <<",", "\"", "s", "t", "a", "t", "u", "s", "\"", ":">> \o EncodeString(e.Status)
         \o <<"}">>

\* (*Error).Error
Error(e) == Marshal(e)

\* err.Error() of a non-nil error value
ErrorText(v) == IF v.kind = "other" THEN v.text ELSE Error(v)

----------------------------------------------------------------------------
(* encoding/json.Unmarshal into an Error *)

WhiteSpace == {" ", "TAB", "CR", "LF"}

DecDigits == {"0", "1", "2", "3", "4", "5", "6", "7", "8", "9"}

HexChars == DecDigits \cup {"a", "b", "c", "d", "e", "f", "A", "B", "C", "D", "E", "F"}

DigitVal(c) == CHOOSE d \in 0..9 : Digit(d) = c

HexVal(c) == CHOOSE v \in 0..15 : c \in {HexDigits[v + 1], HexUpper[v + 1]}

\* the printable ASCII characters 0x20..0x7E in order (the grave accent, which
\* a TLA+ string cannot hold, by its code point)
Ascii ==
    <<" ", "!", "\"", "#", "$", "%", "&", "'", "(", ")", "*", "+", ",", "-", ".", "/",
      "0", "1", "2", "3", "4", "5", "6", "7", "8", "9", ":", ";", "<", "=", ">", "?",
      "@", "A", "B", "C", "D", "E", "F", "G", "H", "I", "J", "K", "L", "M", "N", "O",
      "P", "Q", "R", "S", "T", "U", "V", "W", "X", "Y", "Z", "[", "\\", "]", "^", "_",
      "U+0060", "a", "b", "c", "d", "e", "f", "g", "h", "i", "j", "k", "l", "m", "n", "o",
      "p", "q", "r", "s", "t", "u", "v", "w", "x", "y", "z", "{", "|", "}", "~">>

At(s, i) == IF i >= 1 /\ i <= Len(s) THEN s[i] ELSE "EOF"

\* whether the four characters from i are hex digits
IsHexQuad(s, i) == \A k \in 0..3 : At(s, i + k) \in HexChars

QuadVal(s, i) ==
    4096 * HexVal(s[i]) + 256 * HexVal(s[i + 1]) + 16 * HexVal(s[i + 2]) + HexVal(s[i + 3])

QuadName(s, i) ==
    HexUpper[HexVal(s[i]) + 1] \o HexUpper[HexVal(s[i + 1]) + 1]
    \o HexUpper[HexVal(s[i + 2]) + 1] \o HexUpper[HexVal(s[i + 3]) + 1]

\* whether a \uXXXX escape naming a low surrogate starts at i
IsLowSurrogateAt(s, i) ==
    /\ At(s, i) = "\\"
    /\ At(s, i + 1) = "u"
    /\ IsHexQuad(s, i + 2)
    /\ QuadVal(s, i + 2) >= 56320
    /\ QuadVal(s, i + 2) < 57344

\* the character a \uXXXX escape whose digits start at i and have the value v
\* stands for, and the number of characters of text it takes after the
\* backslash-u: a surrogate pair is one character, a lone surrogate is replaced
\* by U+FFFD
EscapedChar(s, i, v) ==
    IF v < 32 THEN [c |-> ControlChar(v), n |-> 4]
    ELSE IF v < 127 THEN [c |-> Ascii[v - 31], n |-> 4]
    ELSE IF v = 65533 THEN [c |-> "uFFFD", n |-> 4]
    ELSE IF v >= 55296 /\ v < 56320 /\ IsLowSurrogateAt(s, i + 4) THEN
        [c |-> "U+" \o QuadName(s, i) \o QuadName(s, i + 6), n |-> 10]
    ELSE IF v >= 55296 /\ v < 57344 THEN [c |-> "uFFFD", n |-> 4]
    ELSE [c |-> "U+" \o QuadName(s, i), n |-> 4]

UnicodeEscape(s, i) == EscapedChar(s, i, QuadVal(s, i))

SimpleEscape(c) ==
    CASE c = "\"" -> "\""
      [] c = "\\" -> "\\"
      [] c = "/" -> "/"
      [] c = "b" -> ControlChar(8)
      [] c = "f" -> ControlChar(12)
      [] c = "n" -> "LF"
      [] c = "r" -> "CR"
      [] c = "t" -> "TAB"

Fail == [ok |-> FALSE, pos |-> 0, val |-> [t |-> "none", s |-> <<>>, m |-> <<>>]]

Parsed(pos, t, s, m) == [ok |-> TRUE, pos |-> pos, val |-> [t |-> t, s |-> s, m |-> m]]

RECURSIVE SkipWS(_, _)
SkipWS(s, i) == IF At(s, i) \in WhiteSpace THEN SkipWS(s, i + 1) ELSE i

RECURSIVE SkipDigits(_, _)
SkipDigits(s, i) == IF At(s, i) \in DecDigits THEN SkipDigits(s, i + 1) ELSE i

\* the characters the scanner of a string literal stops at: the closing quote,
\* an escape, the end of the text, and those it rejects or replaces
Stops == ControlChars \cup {"EOF", "\"", "\\", "xFF"}

\* the first place from i on that holds one of them
PlainEnd(s, i) ==
    CHOOSE j \in i..(Len(s) + 1) :
        At(s, j) \in Stops /\ \A k \in i..(j - 1) : At(s, k) \notin Stops

\* the rest of a string literal from i, the opening quote already read: the
\* scanner rejects raw control characters and bad escapes, unquoting decodes
\* the escapes and replaces invalid UTF-8 by U+FFFD
RECURSIVE StringBody(_, _, _)
RECURSIVE AfterPlain(_, _, _)
RECURSIVE AfterUnicodeEscape(_, _, _, _)

AfterUnicodeEscape(s, i, acc, u) == StringBody(s, i + u.n, Append(acc, u.c))

\* at j, where the plain characters now in acc ended
AfterPlain(s, j, acc) ==
    IF At(s, j) = "\"" THEN Parsed(j + 1, "str", acc, <<>>)
    ELSE IF At(s, j) = "\\" THEN
        IF At(s, j + 1) \in {"\"", "\\", "/", "b", "f", "n", "r", "t"} THEN
            StringBody(s, j + 2, Append(acc, SimpleEscape(At(s, j + 1))))
        ELSE IF At(s, j + 1) = "u" /\ IsHexQuad(s, j + 2) THEN
            AfterUnicodeEscape(s, j + 2, acc, UnicodeEscape(s, j + 2))
        ELSE Fail
    ELSE IF At(s, j) = "xFF" THEN StringBody(s, j + 1, Append(acc, "uFFFD"))
    ELSE Fail

StringBody(s, i, acc) ==
    AfterPlain(s, PlainEnd(s, i), acc \o SubSeq(s, i, PlainEnd(s, i) - 1))

\* a number literal: -? (0 | [1-9][0-9]*) (. [0-9]+)? ([eE] [+-]? [0-9]+)?
\* Each part is given the place p the part before it ended at and yields the
\* place it ends at itself, 0 when the literal is malformed.
IntegerEnd(s, p) ==
    IF At(s, p) = "0" THEN p + 1
    ELSE IF At(s, p) \in DecDigits THEN SkipDigits(s, p + 1)
    ELSE 0

FractionEnd(s, p) ==
    IF p = 0 THEN 0
    ELSE IF At(s, p) # "." THEN p
    ELSE IF At(s, p + 1) \in DecDigits THEN SkipDigits(s, p + 2)
    ELSE 0

DigitsEnd(s, p) == IF At(s, p) \in DecDigits THEN SkipDigits(s, p + 1) ELSE 0

ExponentEnd(s, p) ==
    IF p = 0 THEN 0
    ELSE IF At(s, p) \notin {"e", "E"} THEN p
    ELSE DigitsEnd(s, IF At(s, p + 1) \in {"+", "-"} THEN p + 2 ELSE p + 1)

NumberTo(s, i, end) ==
    IF end = 0 THEN Fail ELSE Parsed(end, "num", SubSeq(s, i, end - 1), <<>>)

NumberAt(s, i) ==
    NumberTo(s, i, ExponentEnd(s, FractionEnd(s,
                        IntegerEnd(s, IF At(s, i) = "-" THEN i + 1 ELSE i))))

LiteralAt(s, i, word) ==
    IF i + Len(word) - 1 <= Len(s) /\ SubSeq(s, i, i + Len(word) - 1) = word
    THEN Parsed(i + Len(word), IF word = <<"n", "u", "l", "l">> THEN "null" ELSE "bool", word, <<>>)
    ELSE Fail

RECURSIVE ValueAt(_, _)
RECURSIVE MembersAt(_, _, _)
RECURSIVE AfterKey(_, _, _)
RECURSIVE AfterMember(_, _, _)
RECURSIVE ElementsAt(_, _)
RECURSIVE AfterElement(_, _)

\* the members of an object from i, where a key must start
MembersAt(s, i, acc) ==
    IF At(s, i) # "\"" THEN Fail ELSE AfterKey(s, StringBody(s, i + 1, <<>>), acc)

\* after the key k: a colon, then the member's value
AfterKey(s, k, acc) ==
    IF ~k.ok THEN Fail
    ELSE IF At(s, SkipWS(s, k.pos)) # ":" THEN Fail
    ELSE AfterMember(s, ValueAt(s, SkipWS(s, SkipWS(s, k.pos) + 1)),
                     Append(acc, [k |-> k.val.s]))

\* after the value v of the member whose key is last in acc: the object ends,
\* or a comma and another member follow
AfterMember(s, v, acc) ==
    IF ~v.ok THEN Fail
    ELSE IF At(s, SkipWS(s, v.pos)) = "}" THEN
        Parsed(SkipWS(s, v.pos) + 1, "obj", <<>>,
               [acc EXCEPT ![Len(acc)] = [k |-> acc[Len(acc)].k, v |-> v.val]])
    ELSE IF At(s, SkipWS(s, v.pos)) = "," THEN
        MembersAt(s, SkipWS(s, SkipWS(s, v.pos) + 1),
                  [acc EXCEPT ![Len(acc)] = [k |-> acc[Len(acc)].k, v |-> v.val]])
    ELSE Fail

\* the elements of an array from i, where a value must start
ElementsAt(s, i) == AfterElement(s, ValueAt(s, i))

AfterElement(s, v) ==
    IF ~v.ok THEN Fail
    ELSE IF At(s, SkipWS(s, v.pos)) = "]" THEN Parsed(SkipWS(s, v.pos) + 1, "arr", <<>>, <<>>)
    ELSE IF At(s, SkipWS(s, v.pos)) = "," THEN ElementsAt(s, SkipWS(s, SkipWS(s, v.pos) + 1))
    ELSE Fail

\* the JSON value that starts at i
ValueAt(s, i) ==
    IF At(s, i) = "{" THEN
        IF At(s, SkipWS(s, i + 1)) = "}"
        THEN Parsed(SkipWS(s, i + 1) + 1, "obj", <<>>, <<>>)
        ELSE MembersAt(s, SkipWS(s, i + 1), <<>>)
    ELSE IF At(s, i) = "[" THEN
        IF At(s, SkipWS(s, i + 1)) = "]"
        THEN Parsed(SkipWS(s, i + 1) + 1, "arr", <<>>, <<>>)
        ELSE ElementsAt(s, SkipWS(s, i + 1))
    ELSE IF At(s, i) = "\"" THEN StringBody(s, i + 1, <<>>)
    ELSE IF At(s, i) = "-" \/ At(s, i) \in DecDigits THEN NumberAt(s, i)
    ELSE IF At(s, i) = "t" THEN LiteralAt(s, i, <<"t", "r", "u", "e">>)
    ELSE IF At(s, i) = "f" THEN LiteralAt(s, i, <<"f", "a", "l", "s", "e">>)
    ELSE IF At(s, i) = "n" THEN LiteralAt(s, i, <<"n", "u", "l", "l">>)
    ELSE Fail

\* a value that is the whole text but for white space after it
Whole(s, v) == IF v.ok /\ SkipWS(s, v.pos) = Len(s) + 1 THEN v ELSE Fail

\* the whole text as one JSON value between optional white space (checkValid)
Document(s) == Whole(s, ValueAt(s, SkipWS(s, 1)))

Letters == <<"a", "b", "c", "d", "e", "f", "g", "h", "i", "j", "k", "l", "m",
             "n", "o", "p", "q", "r", "s", "t", "u", "v", "w", "x", "y", "z">>

Capitals == <<"A", "B", "C", "D", "E", "F", "G", "H", "I", "J", "K", "L", "M",
              "N", "O", "P", "Q", "R", "S", "T", "U", "V", "W", "X", "Y", "Z">>

Lower(c) == IF \E n \in 1..26 : Capitals[n] = c
            THEN Letters[CHOOSE n \in 1..26 : Capitals[n] = c]
            ELSE c

\* a key names a field when it equals the field's json tag, case ignored
EqualFold(k, tag) == Len(k) = Len(tag) /\ \A n \in 1..Len(k) : Lower(k[n]) = tag[n]

FieldOf(k) ==
    CASE EqualFold(k, <<"i", "d">>) -> "Id"
      [] EqualFold(k, <<"c", "o", "d", "e">>) -> "Code"
      [] EqualFold(k, <<"d", "e", "t", "a", "i", "l">>) -> "Detail"
      [] EqualFold(k, <<"s", "t", "a", "t", "u", "s">>) -> "Status"
      [] OTHER -> "none"

\* strconv.ParseInt of a number literal followed by the int32 overflow check:
\* the digits only, at most 2147483647 in magnitude (2147483648 when negative)
RECURSIVE Magnitude(_, _)
Magnitude(ds, acc) ==
    IF ds = <<>> THEN acc
    ELSE IF acc < 0 \/ Head(ds) \notin DecDigits THEN 0 - 1
    ELSE IF acc > 214748364 \/ (acc = 214748364 /\ DigitVal(Head(ds)) > 7) THEN 0 - 1
    ELSE Magnitude(Tail(ds), 10 * acc + DigitVal(Head(ds)))

Signed(neg, m) ==
    IF m < 0 THEN [ok |-> FALSE, n |-> 0] ELSE [ok |-> TRUE, n |-> IF neg THEN 0 - m ELSE m]

Int32Of(lit) ==
    IF lit = <<"-", "2", "1", "4", "7", "4", "8", "3", "6", "4", "8">> THEN [ok |-> TRUE, n |-> 0 - MaxInt32 - 1]
    ELSE IF Head(lit) = "-" THEN Signed(TRUE, Magnitude(Tail(lit), 0))
    ELSE Signed(FALSE, Magnitude(lit, 0))

\* a number stored into Code, or recorded as the call's error
StoreCode(st, n) ==
    IF n.ok THEN [st EXCEPT !.e.Code = n.n] ELSE [st EXCEPT !.failed = TRUE]

\* one member decoded into the field f of the Error: a null leaves the field
\* alone, a value of the wrong type (or a number that is no int32) is recorded
\* as the call's error and skipped, an unknown key is ignored
DecodeField(st, f, v) ==
    IF f = "none" \/ v.t = "null" THEN st
    ELSE IF f = "Code" THEN
        IF v.t = "num" THEN StoreCode(st, Int32Of(v.s)) ELSE [st EXCEPT !.failed = TRUE]
    ELSE IF v.t # "str" THEN [st EXCEPT !.failed = TRUE]
    ELSE IF f = "Id" THEN [st EXCEPT !.e.Id = v.s]
    ELSE IF f = "Detail" THEN [st EXCEPT !.e.Detail = v.s]
    ELSE [st EXCEPT !.e.Status = v.s]

DecodeMember(st, mem) == DecodeField(st, FieldOf(mem.k), mem.v)

RECURSIVE DecodeMembers(_, _)
DecodeMembers(st, ms) ==
    IF ms = <<>> THEN st ELSE DecodeMembers(DecodeMember(st, Head(ms)), Tail(ms))

\* what decoding the document doc into e leaves: e afterwards and whether an
\* error is returned. A syntax error is found before anything is stored; a
\* type error is returned after the rest of the object has been stored.
Decode(doc, e) ==
    IF ~doc.ok THEN [e |-> e, failed |-> TRUE]
    ELSE IF doc.val.t = "null" THEN [e |-> e, failed |-> FALSE]
    ELSE IF doc.val.t # "obj" THEN [e |-> e, failed |-> TRUE]
    ELSE DecodeMembers([e |-> e, failed |-> FALSE], doc.val.m)

\* json.Unmarshal(data, e)
Unmarshal(data, e) == Decode(Document(data), e)

ZeroError == Err(<<>>, 0, <<>>, <<>>)

\* the Error Parse returns for the text t, given what Unmarshal did
ParseOutcome(t, r) == IF r.failed THEN [r.e EXCEPT !.Detail = t] ELSE r.e

\* Parse
Parse(t) == ParseOutcome(t, Unmarshal(t, ZeroError))

----------------------------------------------------------------------------
(* Helper functions *)

\* err.(*Error) succeeds: the interface holds a *Error, nil or not
IsErrorPtr(v) == v.kind \in {"Error", "nilptr"}

Is(e, t) ==
    IF e.kind = "nil" \/ t.kind = "nil" THEN Ret(FALSE)
    ELSE IF IsErrorPtr(e) /\ IsErrorPtr(t) THEN
        IF e.kind = "nilptr" \/ t.kind = "nilptr" THEN Panic ELSE Ret(e.Id = t.Id)
    ELSE Ret(ErrorText(e) = ErrorText(t))

\* a Wrap that turns every error into a fresh WRAPPED_ERROR
WrapAsNew(originalError, message) ==
    IF originalError.kind = "nil" THEN Ret(New(<<"W", "R", "A", "P", "P", "E", "D", "_", "E", "R", "R", "O", "R">>, message, 500))
    ELSE IF originalError.kind = "nilptr" THEN Panic
    ELSE Ret(New(<<"W", "R", "A", "P", "P", "E", "D", "_", "E", "R", "R", "O", "R">>,
                 Sprintf(<<"%", "s", ":", " ", "%", "v">>, <<message, ErrorText(originalError)>>), 500))

Wrap(originalError, message) ==
    IF originalError.kind = "nil" THEN Ret(New(<<"W", "R", "A", "P", "P", "E", "D", "_", "E", "R", "R", "O", "R">>, message, 500))
    ELSE IF originalError.kind = "nilptr" THEN Panic
    ELSE IF originalError.kind = "Error" THEN
        Ret(Err(originalError.Id, originalError.Code,
                Sprintf(<<"%", "s", ":", " ", "%", "s">>, <<message, originalError.Detail>>),
                originalError.Status))
    ELSE Ret(New(<<"W", "R", "A", "P", "P", "E", "D", "_", "E", "R", "R", "O", "R">>,
                 Sprintf(<<"%", "s", ":", " ", "%", "v">>, <<message, ErrorText(originalError)>>), 500))

\* a WithDetail that appends to the detail instead of replacing it
WithDetailAppended(originalError, detail) ==
    IF originalError.kind = "nil" THEN Ret(New(<<"D", "E", "T", "A", "I", "L", "E", "D", "_", "E", "R", "R", "O", "R">>, detail, 500))
    ELSE IF originalError.kind = "nilptr" THEN Panic
    ELSE IF originalError.kind = "Error" THEN
        Ret(Err(originalError.Id, originalError.Code,
                originalError.Detail \o <<":", " ">> \o detail, originalError.Status))
    ELSE Ret(New(<<"D", "E", "T", "A", "I", "L", "E", "D", "_", "E", "R", "R", "O", "R">>, detail, 500))

WithDetail(originalError, detail) ==
    IF originalError.kind = "nil" THEN Ret(New(<<"D", "E", "T", "A", "I", "L", "E", "D", "_", "E", "R", "R", "O", "R">>, detail, 500))
    ELSE IF originalError.kind = "nilptr" THEN Panic
    ELSE IF originalError.kind = "Error" THEN
        Ret(Err(originalError.Id, originalError.Code, detail, originalError.Status))
    ELSE Ret(New(<<"D", "E", "T", "A", "I", "L", "E", "D", "_", "E", "R", "R", "O", "R">>, detail, 500))

GetHTTPStatus(e) ==
    IF e.kind = "nilptr" THEN Panic
    ELSE IF e.kind = "Error" THEN Ret(e.Code)
    ELSE Ret(500)

GetErrorID(e) ==
    IF e.kind = "nilptr" THEN Panic
    ELSE IF e.kind = "Error" THEN Ret(e.Id)
    ELSE Ret(<<"U", "N", "K", "N", "O", "W", "N", "_", "E", "R", "R", "O", "R">>)

\* a || b of two calls: b is evaluated only when a returned false
OrElse(a, c) == IF ~a.ok THEN Panic ELSE IF a.val THEN Ret(TRUE) ELSE c

\* an IsNotFound that knows the sentinel only
IsNotFoundSentinelOnly(e) ==
    IF e.kind = "nilptr" THEN Panic ELSE Ret(e = ErrCollateralNotFound)

IsNotFound(e) == OrElse(Is(e, ErrCollateralNotFound), Is(e, NotFound(<<<<>>>>)))

IsAlreadyExists(e) == OrElse(Is(e, ErrCollateralExists), Is(e, Conflict(<<<<>>>>)))

\* an IsBadRequest whose range includes 500
IsBadRequestUpTo500(e) ==
    IF e.kind = "nilptr" THEN Panic
    ELSE IF e.kind = "Error" THEN Ret(e.Code >= 400 /\ e.Code <= 500)
    ELSE Ret(FALSE)

IsBadRequest(e) ==
    IF e.kind = "nilptr" THEN Panic
    ELSE IF e.kind = "Error" THEN Ret(e.Code >= 400 /\ e.Code < 500)
    ELSE Ret(FALSE)

IsServerError(e) ==
    IF e.kind = "nilptr" THEN Panic
    ELSE IF e.kind = "Error" THEN Ret(e.Code >= 500 /\ e.Code < 600)
    ELSE Ret(FALSE)

----------------------------------------------------------------------------
(* ErrorBuilder *)

NewBuilder == [id |-> <<"C", "U", "S", "T", "O", "M", "_", "E", "R", "R", "O", "R">>, code |-> 500, detail |-> <<>>]

WithID(bd, id) == [bd EXCEPT !.id = id]

\* a WithCode that drops the code it is given
WithCodeIgnored(bd, code) == bd

WithCode(bd, code) == [bd EXCEPT !.code = code]

BuilderWithDetail(bd, detail) == [bd EXCEPT !.detail = detail]

WithDetailf(bd, format, args) == [bd EXCEPT !.detail = Sprintf(format, args)]

Build(bd) == New(bd.id, bd.detail, bd.code)

----------------------------------------------------------------------------
(* The inputs the client draws from *)

\* variadic arguments given to a named constructor
ArgLists == {<<>>, <<<<"a">>>>, <<<<"o", "r", "i", "g">>, <<"b">>>>}

\* messages given to Wrap
Messages == {<<"l", "o", "o", "k", "u", "p", " ", "f", "a", "i", "l", "e", "d">>, <<"1", "0", "0", "%">>}

\* details given to WithDetail
NewDetails == {<<"n", "e", "w", " ", "d", "e", "t", "a", "i", "l">>}

\* codes given to New: both ends of the 4xx and 5xx ranges, unmapped codes
RangeCodes == {0 - 1, 0, 399, 400, 499, 500, 599, 600}

\* text received from outside the process
RawTexts ==
    { <<"n", "o", "t", " ", "v", "a", "l", "i", "d", " ", "j", "s", "o", "n">>,
      <<>>,
      <<"n", "u", "l", "l">>,
      <<"[", "1", ",", "2", "]">>,
      <<"\"", "s", "t", "r", "\"">>,
      <<"{", "\"", "i", "d", "\"", ":", "\"", "x", "\"", ",", "\"", "c", "o", "d", "e", "\"", ":", "4", "0", "4", ",", "\"", "d", "e", "t", "a", "i", "l", "\"", ":", "\"", "d", "\"", ",", "\"", "s", "t", "a", "t", "u", "s", "\"", ":", "\"", "B", "o", "g", "u", "s", "\"", "}">>,
      <<"{", "\"", "c", "o", "d", "e", "\"", ":", "4", "0", "4", ",", "\"", "d", "e", "t", "a", "i", "l", "\"", ":", "5", "}">>,
      <<"{", "\"", "I", "D", "\"", ":", "\"", "x", "\"", ",", "\"", "C", "o", "d", "e", "\"", ":", "\"", "4", "0", "4", "\"", "}">>,
      <<"{", "\"", "c", "o", "d", "e", "\"", ":", "2", "1", "4", "7", "4", "8", "3", "6", "4", "8", ",", "\"", "s", "t", "a", "t", "u", "s", "\"", ":", "\"", "s", "\"", "}">>,
      <<"{", "\"", "c", "o", "d", "e", "\"", ":", "-", "2", "1", "4", "7", "4", "8", "3", "6", "4", "8", "}">>,
      <<"{", "\"", "c", "o", "d", "e", "\"", ":", "1", "e", "2", "}">>,
      <<"{", "\"", "i", "d", "\"", ":", "\"", "a", "\"", ",", "\"", "i", "d", "\"", ":", "\"", "b", "\"", "}">>,
      <<"{", "\"", "i", "d", "\"", ":", "\"", "a", "\"", ",", "}">>,
      <<"{", "\"", "c", "o", "d", "e", "\"", ":", "5", "0", "0", ",", "\"", "s", "t", "a", "t", "u", "s", "\"", ":", "\"", "I", "n", "t", "e", "r", "n", "a", "l", " ", "S", "e", "r", "v", "e", "r", " ", "E", "r", "r", "o", "r", "\"", "}", " ", "x">>,
      <<" ", "{", "\"", "s", "t", "a", "t", "u", "s", "\"", ":", "n", "u", "l", "l", ",", " ", "\"", "c", "o", "d", "e", "\"", ":", "-", "0", ",", " ", "\"", "d", "e", "t", "a", "i", "l", "\"", ":", "\"", "\\", "u", "0", "0", "4", "1", "\\", "u", "d", "8", "3", "d", "\\", "u", "d", "e", "0", "0", "\\", "u", "d", "8", "3", "d", "\"", "}", " ">>,
      <<"{", "\"", "x", "\"", ":", "{", "\"", "y", "\"", ":", "[", "t", "r", "u", "e", ",", "f", "a", "l", "s", "e", ",", "n", "u", "l", "l", ",", "-", "1", ".", "5", "e", "+", "3", "]", "}", ",", "\"", "d", "e", "t", "a", "i", "l", "\"", ":", "\"", "\\", "/", "\"", "}">>,
      <<"{", "\"", "i", "d", "\"", ":", "\"", "xFF", "\"", "}">>,
      <<"{", "\"", "i", "d", "\"", ":", "\"", "LF", "\"", "}">> }

\* errors that come from outside the package
OutsideErrors ==
    { NilErr, NilPtr, Other(<<"b", "o", "o", "m">>), Other(<<"n", "u", "l", "l">>),
      Other(Error(NotFound(<<<<"a">>>>))) }

\* second arguments given to Is
Targets ==
    OutsideErrors \cup
    { NotFound(<<<<"b">>>>), Conflict(<<<<>>>>), ErrCollateralNotFound,
      New(<<"4", "0", "4">>, <<"a">>, 500), New(<<"X">>, <<"a">>, 404) }

\* the errors the client may start from, each with the operation it came from
Inputs ==
    {[e |-> Constructor(n, a), from |-> n] : n \in ConstructorNames, a \in ArgLists}
    \cup {[e |-> s, from |-> "Sentinel"] : s \in Sentinels}
    \cup {[e |-> New(i, <<"a">>, c), from |-> "New"] : i \in {<<"4", "0", "4">>, <<"X">>}, c \in RangeCodes}
    \cup {[e |-> Parse(t), from |-> "Parse"] : t \in RawTexts}
    \cup {[e |-> o, from |-> "outside"] : o \in OutsideErrors}

\* strings given to New before a round trip through the text form
TripStrings ==
    { <<>>, <<"a", " ", "b">>, <<"\"", "\\", "/">>, <<"<", "&", ">">>, <<"LF", "TAB", "CR">>, <<"U+0001", "U+2028">>,
      <<"uFFFD">>, <<"a", "xFF">> }

TripCodes == {0 - MaxInt32 - 1, 0 - 1, 0, 404, 418, MaxInt32}

\* values given to New and to the builder's setters
Ids == {<<"X">>}

Codes == {404, 418, 999}

Details == {<<"t", "e", "a", "p", "o", "t">>}

BuilderFormats == {[format |-> <<"%", "s", ":", " ", "%", "d", "%", "%">>, args |-> <<<<"t", "e", "a">>, <<"p", "o", "t">>>>]}

----------------------------------------------------------------------------
(* The client: one action per call *)

Start(in) ==
    /\ err = in.e
    /\ from = in.from
    /\ orig = in.e
    /\ chain = <<>>
    /\ b = NewBuilder
    /\ last = NewBuilder
    /\ res = NoRes

\* a fresh error replaces the one held
Hold(e, f, r) ==
    /\ err' = e
    /\ from' = f
    /\ orig' = e
    /\ chain' = <<>>
    /\ res' = r

DoNew ==
    \E i \in Ids, d \in Details, c \in Codes :
        /\ \E e \in {New(i, d, c)} : Hold(e, "New", [op |-> "New"])
        /\ UNCHANGED <<b, last>>

DoConstructor ==
    \E n \in ConstructorNames, a \in ArgLists :
        /\ \E e \in {Constructor(n, a)} : Hold(e, n, [op |-> n])
        /\ UNCHANGED <<b, last>>

DoSentinel ==
    \E s \in Sentinels :
        /\ Hold(s, "Sentinel", [op |-> "Sentinel"])
        /\ UNCHANGED <<b, last>>

\* Parse of text received from outside
ParseText ==
    \E t \in RawTexts :
        /\ \E e \in {Parse(t)} :
                Hold(e, "Parse",
                     [op |-> "Parse", arg |-> t, of |-> NilErr,
                      failed |-> Unmarshal(t, ZeroError).failed])
        /\ UNCHANGED <<b, last>>

\* Parse(e.Error()): the error crosses a process boundary as text and goes on
\* being wrapped on the other side
RoundTrip ==
    /\ IsError(err)
    /\ \E e \in {Parse(Error(err))} : err' = e
    /\ res' = [op |-> "Parse", arg |-> Error(err), of |-> err,
               failed |-> Unmarshal(Error(err), ZeroError).failed]
    /\ UNCHANGED <<from, orig, chain, b, last>>

\* what a Wrap or WithDetail call leaves: a panic leaves the client where it
\* was, a call on an Error extends its chain, a call on nil or on another
\* error type yields a fresh error
Chained(op, arg, r) ==
    /\ res' = [op |-> op, arg |-> arg, val |-> r]
    /\ IF ~r.ok THEN UNCHANGED <<err, from, orig, chain>>
       ELSE IF IsError(err) THEN
            /\ err' = r.val
            /\ chain' = Append(chain, [op |-> op, arg |-> arg])
            /\ UNCHANGED <<from, orig>>
       ELSE /\ err' = r.val
            /\ from' = op
            /\ orig' = r.val
            /\ chain' = <<>>
    /\ UNCHANGED <<b, last>>

DoWrap ==
    /\ Len(chain) < MaxChain
    /\ \E m \in Messages : \E r \in {Wrap(err, m)} : Chained("Wrap", m, r)

DoWithDetail ==
    /\ Len(chain) < MaxChain
    /\ \E d \in NewDetails : \E r \in {WithDetail(err, d)} : Chained("WithDetail", d, r)

Query(op, arg, r) ==
    /\ res' = [op |-> op, arg |-> arg, val |-> r]
    /\ UNCHANGED <<err, from, orig, chain, b, last>>

CallIs == \E t \in Targets : Query("Is", t, Is(err, t))

CallIsOrig == Query("Is", orig, Is(err, orig))

CallGetHTTPStatus == Query("GetHTTPStatus", err, GetHTTPStatus(err))

CallGetErrorID == Query("GetErrorID", err, GetErrorID(err))

CallIsNotFound == Query("IsNotFound", err, IsNotFound(err))

CallIsAlreadyExists == Query("IsAlreadyExists", err, IsAlreadyExists(err))

CallIsBadRequest == Query("IsBadRequest", err, IsBadRequest(err))

CallIsServerError == Query("IsServerError", err, IsServerError(err))

\* a setter call: the builder is updated in place, last records what was set
Set(op, nb, nl) ==
    /\ b' = nb
    /\ last' = nl
    /\ res' = [op |-> op]
    /\ UNCHANGED <<err, from, orig, chain>>

DoNewBuilder == Set("NewBuilder", NewBuilder, NewBuilder)

DoWithID == \E i \in Ids : Set("WithID", WithID(b, i), [last EXCEPT !.id = i])

DoWithCode == \E c \in Codes : Set("WithCode", WithCode(b, c), [last EXCEPT !.code = c])

DoBuilderWithDetail ==
    \E d \in Details :
        Set("BuilderWithDetail", BuilderWithDetail(b, d), [last EXCEPT !.detail = d])

DoWithDetailf ==
    \E f \in BuilderFormats :
        Set("WithDetailf", WithDetailf(b, f.format, f.args),
            [last EXCEPT !.detail = Sprintf(f.format, f.args)])

DoBuild ==
    /\ \E e \in {Build(b)} : Hold(e, "Build", [op |-> "Build"])
    /\ UNCHANGED <<b, last>>

\* NewBuilder().WithID(i).WithCode(c).WithDetail(d).Build(), or WithDetailf in
\* place of WithDetail: the builder is a temporary of the expression. A setter
\* given the value its field holds already stands for the setter left out.
DoFluentBuild ==
    \E i \in Ids \cup {NewBuilder.id}, c \in Codes \cup {NewBuilder.code} :
        /\ \/ \E d \in Details \cup {NewBuilder.detail} :
                \E e \in {Build(BuilderWithDetail(WithCode(WithID(NewBuilder, i), c), d))} :
                    Hold(e, "Build", [op |-> "FluentBuild"])
           \/ \E f \in BuilderFormats :
                \E e \in {Build(WithDetailf(WithCode(WithID(NewBuilder, i), c),
                                            f.format, f.args))} :
                    Hold(e, "Build", [op |-> "FluentBuild"])
        /\ UNCHANGED <<b, last>>

----------------------------------------------------------------------------
(* Specifications *)

\* wrapping and classification of the errors of Inputs
Init == \E in \in Inputs : Start(in)

Next ==
    \/ DoWrap
    \/ DoWithDetail
    \/ CallIs
    \/ CallIsOrig
    \/ CallGetHTTPStatus
    \/ CallGetErrorID
    \/ CallIsNotFound
    \/ CallIsAlreadyExists
    \/ CallIsBadRequest
    \/ CallIsServerError

Spec == Init /\ [][Next]_vars

\* the text form and Parse
InitParse ==
    \E i \in TripStrings, d \in TripStrings, c \in TripCodes :
        Start([e |-> New(i, d, c), from |-> "New"])

NextParse == RoundTrip \/ ParseText

SpecParse == InitParse /\ [][NextParse]_vars

\* the builder
InitBuilder == Start([e |-> NilErr, from |-> "outside"])

NextBuilder ==
    \/ DoNewBuilder
    \/ DoWithID
    \/ DoWithCode
    \/ DoBuilderWithDetail
    \/ DoWithDetailf
    \/ DoBuild

SpecBuilder == InitBuilder /\ [][NextBuilder]_vars

\* every operation that produces an Error
NextProduce ==
    \/ DoNew
    \/ DoConstructor
    \/ DoSentinel
    \/ ParseText
    \/ RoundTrip
    \/ DoWrap
    \/ DoWithDetail
    \/ DoFluentBuild

SpecProduce == InitBuilder /\ [][NextProduce]_vars

----------------------------------------------------------------------------
(* Properties *)

Range(s) == {s[n] : n \in 1..Len(s)}

ValidUTF8(s) == "xFF" \notin Range(s)

\* the strings of a sequence joined in order
RECURSIVE Concat(_)
Concat(ss) == IF ss = <<>> THEN <<>> ELSE Head(ss) \o Concat(Tail(ss))

\* the place of the last WithDetail call in a chain, 0 when there is none
LastWithDetail(c) ==
    IF \E n \in 1..Len(c) : c[n].op = "WithDetail"
    THEN CHOOSE n \in 1..Len(c) :
            /\ c[n].op = "WithDetail"
            /\ \A k \in (n + 1)..Len(c) : c[k].op = "Wrap"
    ELSE 0

\* C1: Is(err, target) returns false whenever err or target is nil; when both
\* are non-nil Error values it returns true exactly when their identities are
\* equal; in every other case it returns true exactly when the two errors'
\* text representations are equal.
C1_IsContract ==
    res.op = "Is" =>
        res.val = Ret(IF err = NilErr \/ res.arg = NilErr THEN FALSE
                      ELSE IF IsError(err) /\ IsError(res.arg) THEN err.Id = res.arg.Id
                      ELSE ErrorText(err) = ErrorText(res.arg))

\* C2: after any sequence of Wrap and WithDetail calls that starts from an
\* Error, the result is an Error with the identity, code and status of the
\* Error the sequence started from, and Is against that Error, GetHTTPStatus,
\* GetErrorID, IsBadRequest and IsServerError answer as they do on it.
C2_WrapPreservesClass ==
    IsError(orig) /\ chain # <<>> =>
        /\ IsError(err)
        /\ err.Id = orig.Id
        /\ err.Code = orig.Code
        /\ err.Status = orig.Status
        /\ Is(err, orig) = Is(orig, orig)
        /\ GetHTTPStatus(err) = GetHTTPStatus(orig)
        /\ GetErrorID(err) = GetErrorID(orig)
        /\ IsBadRequest(err) = IsBadRequest(orig)
        /\ IsServerError(err) = IsServerError(orig)

C2_Witness ==
    /\ IsError(orig)
    /\ orig.Code = 404
    /\ Len(chain) = 2
    /\ chain[1].op = "WithDetail"
    /\ chain[2].op = "Wrap"
    /\ err.Detail # orig.Detail

\* C3: after any sequence of Wrap and WithDetail calls on an Error, the detail
\* is the messages of the Wrap calls made since the last WithDetail, newest
\* first, each followed by ": ", ending with the detail the last WithDetail set
\* (the original detail when there was none).
C3_DetailOfChain ==
    IsError(orig) =>
        LET k == LastWithDetail(chain)
            n == Len(chain)
            base == IF k = 0 THEN orig.Detail ELSE chain[k].arg
        IN  err.Detail = Concat([j \in 1..(n - k) |-> chain[n + 1 - j].arg \o <<":", " ">>]) \o base

C3_Witness ==
    /\ IsError(orig)
    /\ Len(chain) = 3
    /\ chain[1].op = "WithDetail"
    /\ chain[2].op = "Wrap"
    /\ chain[3].op = "Wrap"
    /\ chain[2].arg # chain[3].arg
    /\ err.Detail = chain[3].arg \o <<":", " ">> \o chain[2].arg \o <<":", " ">> \o chain[1].arg

\* C4 as stated: for every identity, detail and code, Parse of the text form of
\* New(id, detail, code) is an Error with the same identity, code, detail and
\* status.
C4_RoundTripAnyString ==
    res.op = "Parse" /\ IsError(res.of) /\ from = "New" => err = res.of

\* C4 amended: the round trip returns the same Error when the identity and the
\* detail are valid UTF-8.
C4_RoundTripUTF8 ==
    (res.op = "Parse" /\ IsError(res.of) /\ from = "New"
        /\ ValidUTF8(res.of.Id) /\ ValidUTF8(res.of.Detail))
    => (~res.failed /\ err = res.of)

C4_Witness ==
    /\ res.op = "Parse"
    /\ from = "New"
    /\ IsError(res.of)
    /\ res.of.Id = <<"\"", "\\", "/">>
    /\ res.of.Detail = <<"U+0001", "U+2028">>
    /\ res.of.Code = 418
    /\ err = res.of

\* C5: whenever the JSON decode fails, Parse returns an Error whose detail is
\* the raw input text and whose identity, code and status are empty, 0 and
\* empty.
C5_FailureLeavesZero ==
    res.op = "Parse" /\ res.failed => err = Err(<<>>, 0, res.arg, <<>>)

\* C6 as stated: every Error that New, the named constructors, the sentinels,
\* Parse, Build and Wrap/WithDetail produce has the status-code-table text of
\* its code as its status.
C6_StatusIsTableText == IsError(err) => err.Status = StatusText(err.Code)

\* C6 amended: the same, for every Error that does not come from Parse of text
\* received from outside (Parse of the text form of such an Error included).
C6_StatusIsTableTextUnlessParsed ==
    IsError(err) /\ from # "Parse" => err.Status = StatusText(err.Code)

C6_Witness ==
    /\ IsError(err)
    /\ from = "Build"
    /\ err.Code = 418
    /\ err.Status = <<"I", "'", "m", " ", "a", " ", "t", "e", "a", "p", "o", "t">>
    /\ Len(chain) = 2
    /\ res.op = "Wrap"

\* C7: GetHTTPStatus returns the error's code when the input is an Error and
\* 500 for every other input: nil, a nil Error reference, an error of another
\* type.
C7_GetHTTPStatusTotal ==
    res.op = "GetHTTPStatus" => res.val = Ret(IF IsError(err) THEN err.Code ELSE 500)

\* C8: IsNotFound is true of every error built by NotFound, whatever its
\* detail, also after Wrap/WithDetail calls, and IsAlreadyExists of every
\* error built by Conflict; they are false of nil and of every Error whose
\* identity is not "404" (respectively "409").
C8_RecognisesConstructor ==
    /\ res.op = "IsNotFound" =>
        /\ from = "NotFound" \/ orig = ErrCollateralNotFound => res.val = Ret(TRUE)
        /\ err = NilErr => res.val = Ret(FALSE)
        /\ IsError(err) /\ err.Id # <<"4", "0", "4">> => res.val = Ret(FALSE)
    /\ res.op = "IsAlreadyExists" =>
        /\ from = "Conflict" \/ orig = ErrCollateralExists => res.val = Ret(TRUE)
        /\ err = NilErr => res.val = Ret(FALSE)
        /\ IsError(err) /\ err.Id # <<"4", "0", "9">> => res.val = Ret(FALSE)

C8_Witness ==
    /\ res.op = "IsNotFound"
    /\ from = "NotFound"
    /\ orig = NotFound(<<<<"o", "r", "i", "g">>, <<"b">>>>)
    /\ Len(chain) = 2
    /\ res.val = Ret(TRUE)

\* C9: IsBadRequest is true exactly of the Errors with 400 <= code < 500 and
\* IsServerError exactly of the Errors with 500 <= code < 600; no error
\* satisfies both; BadRequest(..) is a bad request, InternalServerError(..) is
\* a server error and not a bad request.
C9_RangeClassification ==
    /\ res.op = "IsBadRequest" =>
        /\ res.val = Ret(TRUE) <=> IsError(err) /\ err.Code >= 400 /\ err.Code < 500
        /\ from = "BadRequest" => res.val = Ret(TRUE)
        /\ from = "InternalServerError" => res.val = Ret(FALSE)
    /\ res.op = "IsServerError" =>
        /\ res.val = Ret(TRUE) <=> IsError(err) /\ err.Code >= 500 /\ err.Code < 600
        /\ from = "InternalServerError" => res.val = Ret(TRUE)
    /\ ~(IsBadRequest(err) = Ret(TRUE) /\ IsServerError(err) = Ret(TRUE))

C9_Witness ==
    /\ res.op = "IsBadRequest"
    /\ IsError(err)
    /\ err.Code = 499
    /\ res.val = Ret(TRUE)
    /\ IsServerError(err) = Ret(FALSE)

\* C10: a new builder holds "CUSTOM_ERROR", 500 and the empty detail; Build
\* returns an Error whose identity, code and detail are the values last set (or
\* those defaults) and whose status is the table text of that code; Build
\* leaves the builder as it was, and a setter call leaves the Error built
\* before as it was.
C10_Builder ==
    /\ [](/\ res.op \in {"none", "NewBuilder"}
                => b = [id |-> <<"C", "U", "S", "T", "O", "M", "_", "E", "R", "R", "O", "R">>, code |-> 500, detail |-> <<>>]
          /\ res.op = "Build"
                => err = Err(last.id, last.code, last.detail, StatusText(last.code)))
    /\ [][res'.op = "Build" => b' = b]_vars
    /\ [][res'.op \in {"WithID", "WithCode", "BuilderWithDetail", "WithDetailf"}
            => err' = err]_vars

C10_Witness ==
    /\ res.op = "Build"
    /\ err = Err(<<"X">>, 418, <<"t", "e", "a", "p", "o", "t">>, <<"I", "'", "m", " ", "a", " ", "t", "e", "a", "p", "o", "t">>)
    /\ b = [id |-> <<"X">>, code |-> 418, detail |-> <<"t", "e", "a", "p", "o", "t">>]

=============================================================================
